---- MODULE Spec2Model ----
(***************************************************************************)
(* State-machine model of the Fruito API (src/main.py): the user, product  *)
(* and order collections of the document store and the handlers            *)
(* seed_admin, user_signup, user_login, admin_login, create_product and    *)
(* place_order.                                                            *)
(*                                                                         *)
(* Spec     : the startup event and the account handlers, each run to       *)
(*            completion, from the contents the user collection may hold.  *)
(* SpecShop : read_root, create_product, list_products and place_order,    *)
(*            each run to completion, on a seeded store.                   *)
(* SpecConc : user_signup and place_order split at their database calls,   *)
(*            two worker threads interleaving them.                        *)
(*                                                                         *)
(* Documents are records; a collection is the sequence of its documents in *)
(* insertion order and a document's _id is its position.  Prices and       *)
(* totals are counted in cents.  Timestamps, descriptions, image           *)
(* references and the item list copied into an order document are read by  *)
(* no handler and are left out of the documents.                           *)
(***************************************************************************)
EXTENDS Integers, Sequences, FiniteSets, TLC

\* ---------------------------------------------------------------- bounds
MaxProducts == 1
MaxOrders == 1
MaxItems == 2

\* ------------------------------------------------------------- constants
SECRET_KEY == "super-secret-key"
ADMIN_EMAIL == "deeptesh2006@gmail.com"
ADMIN_PASSWORD == "deep1591"

Emails == {ADMIN_EMAIL, "alice@x.io", "bob@x.io"}
Passwords == {ADMIN_PASSWORD, "hunter2"}
Workers == {"w1", "w2"}

\* ------------------------------------------------------ password hashing
\* HMAC-SHA256 keyed by SECRET_KEY: a deterministic digest, distinct for
\* distinct passwords, and never equal to a password itself.
hash_password(password) == <<"hmac", SECRET_KEY, password>>

verify_password(password, password_hash) == hash_password(password) = password_hash

\* ------------------------------------------------------------- documents
UserDoc(name, email, password_hash, role) ==
    [name |-> name, email |-> email, password_hash |-> password_hash, role |-> role]

\* variant: the password is stored as sent, not its digest
SignupDocPlain(payload) ==
    UserDoc(payload.name, payload.email, payload.password, "user")

\* the document user_signup hands to create_document
SignupDoc(payload) ==
    UserDoc(payload.name, payload.email, hash_password(payload.password), "user")

\* the document seed_admin inserts
AdminDoc == UserDoc("Admin", ADMIN_EMAIL, hash_password(ADMIN_PASSWORD), "admin")

\* -------------------------------------------------------- store accessors
\* db[coll].find_one({"email": email}): position of the first match, 0 for None
FindUser(us, email) ==
    IF \E i \in DOMAIN us : us[i].email = email
    THEN CHOOSE i \in DOMAIN us :
            /\ us[i].email = email
            /\ \A j \in DOMAIN us : us[j].email = email => i <= j
    ELSE 0

\* create_document(collection, data): insert, the new _id is returned
create_document(coll, doc) == Append(coll, doc)

\* db["product"].find_one({"_id": ObjectId(product_id)}): 0 for None
FindProduct(ps, product_id) == IF product_id \in DOMAIN ps THEN product_id ELSE 0

\* variant: $set in place of $inc
IncStockSet(ps, product_id, delta) ==
    IF product_id \in DOMAIN ps
    THEN [ps EXCEPT ![product_id].stock = delta]
    ELSE ps

\* variant: the decrement applies only while the stock covers it
IncStockGuarded(ps, product_id, delta) ==
    IF product_id \in DOMAIN ps /\ ps[product_id].stock + delta >= 0
    THEN [ps EXCEPT ![product_id].stock = @ + delta]
    ELSE ps

\* db["product"].update_one({"_id": id}, {"$inc": {"stock": delta}})
IncStock(ps, product_id, delta) ==
    IF product_id \in DOMAIN ps
    THEN [ps EXCEPT ![product_id].stock = @ + delta]
    ELSE ps

\* ------------------------------------------------------------- responses
NoBody == [id |-> 0]
Resp(op, status, detail, body) ==
    [op |-> op, status |-> status, detail |-> detail, body |-> body]
DbUnavailable(op) == Resp(op, 500, "Database not available", NoBody)

UserPublic(id, name, email, role) == [id |-> id, name |-> name, email |-> email, role |-> role]

\* ------------------------------------------------------------ seed_admin
\* variant: no demotion sweep
DemoteNone(us) == us

\* update_many({"email": {"$ne": ADMIN_EMAIL}, "role": "admin"}, {"$set": {"role": "user"}})
DemoteOthers(us) ==
    [i \in DOMAIN us |->
        IF us[i].email # ADMIN_EMAIL /\ us[i].role = "admin"
        THEN [us[i] EXCEPT !.role = "user"]
        ELSE us[i]]

\* update_one({"email": ADMIN_EMAIL}, {"$set": {"role": "admin", "password_hash": ...}})
PromoteReserved(us) ==
    LET i == FindUser(us, ADMIN_EMAIL)
    IN  IF i = 0 THEN us
        ELSE [us EXCEPT ![i] = [@ EXCEPT !.role = "admin",
                                           !.password_hash = hash_password(ADMIN_PASSWORD)]]

SeedAdmin(us) ==
    IF FindUser(us, ADMIN_EMAIL) # 0
    THEN PromoteReserved(DemoteOthers(us))
    ELSE DemoteOthers(Append(us, AdminDoc))

\* ----------------------------------------------------------- user_signup
\* variant: no reserved-email test
SignupNeverReserved(payload) == FALSE

SignupCheckReserved(payload) == payload.email = ADMIN_EMAIL

\* the response of user_signup against user collection us
SignupResp(us, payload) ==
    IF SignupCheckReserved(payload)
    THEN Resp("user_signup", 400, "This email is reserved for admin", NoBody)
    ELSE IF FindUser(us, payload.email) # 0
    THEN Resp("user_signup", 400, "Email already registered", NoBody)
    ELSE Resp("user_signup", 200, "", UserPublic(Len(us) + 1, payload.name, payload.email, "user"))

\* the user collection user_signup leaves
SignupUsers(us, payload) ==
    IF SignupResp(us, payload).status = 200
    THEN create_document(us, SignupDoc(payload))
    ELSE us

\* ------------------------------------------------------------ user_login
UserLoginResp(us, payload) ==
    LET i == FindUser(us, payload.email)
    IN  IF i = 0 \/ ~verify_password(payload.password, us[i].password_hash)
        THEN Resp("user_login", 401, "Invalid credentials", NoBody)
        ELSE IF us[i].role # "user"
        THEN Resp("user_login", 403, "Not a user account", NoBody)
        ELSE Resp("user_login", 200, "", UserPublic(i, us[i].name, us[i].email, "user"))

\* ----------------------------------------------------------- admin_login
\* variant: the role alone decides, the email is not compared
AdminLoginRespAnyEmail(us, payload) ==
    LET i == FindUser(us, payload.email)
    IN  IF i = 0 \/ ~verify_password(payload.password, us[i].password_hash)
        THEN Resp("admin_login", 401, "Invalid credentials", NoBody)
        ELSE IF us[i].role # "admin"
        THEN Resp("admin_login", 403, "Admin access denied", NoBody)
        ELSE Resp("admin_login", 200, "", UserPublic(i, us[i].name, us[i].email, "admin"))

AdminLoginResp(us, payload) ==
    LET i == FindUser(us, payload.email)
    IN  IF i = 0 \/ ~verify_password(payload.password, us[i].password_hash)
        THEN Resp("admin_login", 401, "Invalid credentials", NoBody)
        ELSE IF payload.email # ADMIN_EMAIL \/ us[i].role # "admin"
        THEN Resp("admin_login", 403, "Admin access denied", NoBody)
        ELSE Resp("admin_login", 200, "", UserPublic(i, us[i].name, us[i].email, "admin"))

\* -------------------------------------------------------- create_product
AdminDenied(us, creds) ==
    LET i == FindUser(us, creds.email)
    IN  \/ i = 0
        \/ ~verify_password(creds.password, us[i].password_hash)
        \/ creds.email # ADMIN_EMAIL
        \/ us[i].role # "admin"

CreateProductResp(us, ps, product, creds) ==
    IF AdminDenied(us, creds)
    THEN Resp("create_product", 403, "Admin access denied", NoBody)
    ELSE Resp("create_product", 200, "", [id |-> Len(ps) + 1, product |-> product])

\* ----------------------------------------------------------- place_order
\* variant: no stock comparison
CheckItemNoStockCheck(ps, item) ==
    LET p == FindProduct(ps, item.product_id)
    IN  IF p = 0
        THEN [status |-> 404, detail |-> "Product not found", name |-> "", amount |-> 0]
        ELSE [status |-> 200, detail |-> "", name |-> ps[p].name,
              amount |-> ps[p].price * item.quantity]

\* variant: an item whose product is not found is passed over
CheckItemSkipMissing(ps, item) ==
    LET p == FindProduct(ps, item.product_id)
    IN  IF p = 0
        THEN [status |-> 200, detail |-> "", name |-> "", amount |-> 0]
        ELSE IF ps[p].stock < item.quantity
        THEN [status |-> 400, detail |-> "Insufficient stock for", name |-> ps[p].name,
              amount |-> 0]
        ELSE [status |-> 200, detail |-> "", name |-> ps[p].name,
              amount |-> ps[p].price * item.quantity]

\* one turn of the first loop: the lookup, the stock check, the line amount
CheckItem(ps, item) ==
    LET p == FindProduct(ps, item.product_id)
    IN  IF p = 0
        THEN [status |-> 404, detail |-> "Product not found", name |-> "", amount |-> 0]
        ELSE IF ps[p].stock < item.quantity
        THEN [status |-> 400, detail |-> "Insufficient stock for", name |-> ps[p].name,
              amount |-> 0]
        ELSE [status |-> 200, detail |-> "", name |-> ps[p].name,
              amount |-> ps[p].price * item.quantity]

\* the first loop from item i on, total being the sum so far
RECURSIVE CheckItems(_, _, _, _)
CheckItems(ps, items, i, total) ==
    IF i > Len(items)
    THEN [status |-> 200, detail |-> "", name |-> "", total |-> total]
    ELSE LET r == CheckItem(ps, items[i])
         IN  IF r.status # 200
             THEN [status |-> r.status, detail |-> r.detail, name |-> r.name, total |-> total]
             ELSE CheckItems(ps, items, i + 1, total + r.amount)

\* the second loop from item i on
RECURSIVE ReduceStock(_, _, _)
ReduceStock(ps, items, i) ==
    IF i > Len(items) THEN ps
    ELSE ReduceStock(IncStock(ps, items[i].product_id, -items[i].quantity), items, i + 1)

OrderDoc(order, total) ==
    [user_id |-> order.user_id, total |-> total, status |-> "placed"]

OrderOut(id, order, total) ==
    [id |-> id, user_id |-> order.user_id, total |-> total, status |-> "placed"]

\* place_order run to completion on product collection ps and order
\* collection os: the two collections it leaves and its response
PlaceOrder(ps, os, order) ==
    LET r == CheckItems(ps, order.items, 1, 0)
    IN  IF r.status # 200
        THEN [products |-> ps, orders |-> os,
              resp |-> Resp("place_order", r.status, r.detail, [id |-> 0, name |-> r.name])]
        ELSE [products |-> ReduceStock(ps, order.items, 1),
              orders |-> create_document(os, OrderDoc(order, r.total)),
              resp |-> Resp("place_order", 200, "", OrderOut(Len(os) + 1, order, r.total))]

\* ----------------------------------------------------------------- inputs
Names == {"Ann"}
SignupPayloads == [name : Names, email : Emails, password : Passwords]
LoginPayloads == [email : Emails, password : Passwords]

\* ProductIn payloads: price in cents, stock as sent
ProductPayloads ==
    { [name |-> "apple", price |-> 250, stock |-> 10],
      [name |-> "kiwi",  price |-> 100, stock |-> 5],
      [name |-> "plum",  price |-> 300, stock |-> 0] }

\* product ids a request can name: the first assigned id and the one after it
ProductIds == {1, 2}
Quantities == {-1, 3}
OrderItems == [product_id : ProductIds, quantity : Quantities]
ItemLists == UNION { [1 .. n -> OrderItems] : n \in 0 .. MaxItems }
OrderPayloads == [user_id : {"u1"}, items : ItemLists]

\* contents the user collection may hold when the process first starts
InitUsers ==
    { << >>,
      << UserDoc("Bob", "bob@x.io", hash_password("hunter2"), "user") >>,
      << UserDoc("Eve", "alice@x.io", hash_password("hunter2"), "admin") >>,
      << UserDoc("Old", ADMIN_EMAIL, hash_password("hunter2"), "user") >>,
      << UserDoc("Eve", "alice@x.io", hash_password(ADMIN_PASSWORD), "admin"),
         UserDoc("Old", ADMIN_EMAIL, hash_password("hunter2"), "admin") >> }

\* ------------------------------------------------------------------ state
VARIABLES
    dbUp,       \* database.db is not None
    started,    \* the startup event has run
    users,      \* db["user"]
    products,   \* db["product"]
    orders,     \* db["order"]
    resp,       \* the response sent last
    pc,         \* per worker: position inside its handler
    loc         \* per worker: the handler's local variables

vars == <<dbUp, started, users, products, orders, resp, pc, loc>>

NoResp == Resp("none", 0, "", NoBody)
NoLoc == [op |-> "none"]

Init ==
    /\ dbUp \in BOOLEAN
    /\ started = FALSE
    /\ users \in InitUsers
    /\ products = << >>
    /\ orders = << >>
    /\ resp = NoResp
    /\ pc = [w \in Workers |-> "idle"]
    /\ loc = [w \in Workers |-> NoLoc]

\* --------------------------------------------- handlers, run to completion
seed_admin ==
    /\ started' = TRUE
    /\ users' = IF dbUp THEN SeedAdmin(users) ELSE users
    /\ resp' = Resp("seed_admin", 0, "", NoBody)
    /\ UNCHANGED <<dbUp, products, orders, pc, loc>>

user_signup(payload) ==
    /\ started
    /\ IF ~dbUp
       THEN /\ resp' = DbUnavailable("user_signup")
            /\ UNCHANGED users
       ELSE /\ users' = SignupUsers(users, payload)
            /\ resp' = SignupResp(users, payload)
    /\ UNCHANGED <<dbUp, started, products, orders, pc, loc>>

user_login(payload) ==
    /\ started
    /\ resp' = IF dbUp THEN UserLoginResp(users, payload) ELSE DbUnavailable("user_login")
    /\ UNCHANGED <<dbUp, started, users, products, orders, pc, loc>>

admin_login(payload) ==
    /\ started
    /\ resp' = IF dbUp THEN AdminLoginResp(users, payload) ELSE DbUnavailable("admin_login")
    /\ UNCHANGED <<dbUp, started, users, products, orders, pc, loc>>

create_product(product, creds) ==
    /\ started
    /\ IF ~dbUp
       THEN /\ resp' = DbUnavailable("create_product")
            /\ UNCHANGED products
       ELSE LET r == CreateProductResp(users, products, product, creds)
            IN  /\ r.status = 200 => Len(products) < MaxProducts
                /\ products' = IF r.status = 200 THEN create_document(products, product)
                                ELSE products
                /\ resp' = r
    /\ UNCHANGED <<dbUp, started, users, orders, pc, loc>>

place_order(order) ==
    /\ started
    /\ IF ~dbUp
       THEN /\ resp' = DbUnavailable("place_order")
            /\ UNCHANGED <<products, orders>>
       ELSE LET r == PlaceOrder(products, orders, order)
            IN  /\ Len(r.orders) <= MaxOrders
                /\ products' = r.products
                /\ orders' = r.orders
                /\ resp' = r.resp
    /\ UNCHANGED <<dbUp, started, users, pc, loc>>

\* GET /: the liveness message, whatever the database
read_root ==
    /\ started
    /\ resp' = Resp("read_root", 200, "Fruito API Running", NoBody)
    /\ UNCHANGED <<dbUp, started, users, products, orders, pc, loc>>

\* list_products: the public view of every product document
ProductOut(ps) ==
    [i \in DOMAIN ps |-> [id |-> i, name |-> ps[i].name, price |-> ps[i].price,
                           stock |-> ps[i].stock]]

list_products ==
    /\ started
    /\ resp' = IF dbUp THEN Resp("list_products", 200, "", ProductOut(products))
               ELSE DbUnavailable("list_products")
    /\ UNCHANGED <<dbUp, started, users, products, orders, pc, loc>>

\* the user collection as the first startup leaves an empty store
SeededUsers == SeedAdmin(<< >>)

InitShop ==
    /\ dbUp \in BOOLEAN
    /\ started = TRUE
    /\ users = IF dbUp THEN SeededUsers ELSE << >>
    /\ products = << >>
    /\ orders = << >>
    /\ resp = NoResp
    /\ pc = [w \in Workers |-> "idle"]
    /\ loc = [w \in Workers |-> NoLoc]

\* the account handlers and the startup event
Next ==
    \/ seed_admin
    \/ \E payload \in SignupPayloads : user_signup(payload)
    \/ \E payload \in LoginPayloads : user_login(payload)
    \/ \E payload \in LoginPayloads : admin_login(payload)

Spec == Init /\ [][Next]_vars

\* the catalogue and order handlers, one request at a time
NextShop ==
    \/ \E product \in ProductPayloads, creds \in LoginPayloads : create_product(product, creds)
    \/ read_root
    \/ list_products
    \/ \E order \in OrderPayloads : place_order(order)

SpecShop == InitShop /\ [][NextShop]_vars

\* ------------------------- handlers split at their database calls (SpecConc)
\* Each worker thread serves one request; a step is one database call
\* together with the local computation that follows it.
Loc(op, payload, i, total, seen, status) ==
    [op |-> op, payload |-> payload, i |-> i, total |-> total, seen |-> seen,
     status |-> status]

Finish(w, r) ==
    /\ pc' = [pc EXCEPT ![w] = "done"]
    /\ loc' = [loc EXCEPT ![w].status = r.status]
    /\ resp' = r

\* user_signup up to its find_one
signup_begin(w, payload) ==
    /\ pc[w] = "idle"
    /\ IF SignupCheckReserved(payload)
       THEN /\ pc' = [pc EXCEPT ![w] = "done"]
            /\ loc' = [loc EXCEPT ![w] = Loc("user_signup", payload, 0, 0, << >>, 400)]
            /\ resp' = SignupResp(users, payload)
       ELSE /\ pc' = [pc EXCEPT ![w] = "signup_find"]
            /\ loc' = [loc EXCEPT ![w] = Loc("user_signup", payload, 0, 0, << >>, 0)]
            /\ UNCHANGED resp
    /\ UNCHANGED <<dbUp, started, users, products, orders>>

\* db["user"].find_one({"email": payload.email})
signup_find(w) ==
    /\ pc[w] = "signup_find"
    /\ IF FindUser(users, loc[w].payload.email) # 0
       THEN Finish(w, SignupResp(users, loc[w].payload))
       ELSE /\ pc' = [pc EXCEPT ![w] = "signup_insert"]
            /\ UNCHANGED <<loc, resp>>
    /\ UNCHANGED <<dbUp, started, users, products, orders>>

\* create_document("user", ...) and the response
signup_insert(w) ==
    /\ pc[w] = "signup_insert"
    /\ users' = create_document(users, SignupDoc(loc[w].payload))
    /\ Finish(w, Resp("user_signup", 200, "",
                       UserPublic(Len(users) + 1, loc[w].payload.name,
                                  loc[w].payload.email, "user")))
    /\ UNCHANGED <<dbUp, started, products, orders>>

\* place_order up to its first loop
order_begin(w, order) ==
    /\ pc[w] = "idle"
    /\ pc' = [pc EXCEPT ![w] = "order_check"]
    /\ loc' = [loc EXCEPT ![w] = Loc("place_order", order, 1, 0, << >>, 0)]
    /\ UNCHANGED <<dbUp, started, users, products, orders, resp>>

\* one turn of the first loop: find_one, the two checks, total +=
order_check(w) ==
    /\ pc[w] = "order_check"
    /\ LET items == loc[w].payload.items
           i == loc[w].i
       IN  IF i > Len(items)
           THEN /\ pc' = [pc EXCEPT ![w] = "order_reduce"]
                /\ loc' = [loc EXCEPT ![w].i = 1]
                /\ UNCHANGED resp
           ELSE LET r == CheckItem(products, items[i])
                    p == FindProduct(products, items[i].product_id)
                IN  IF r.status # 200
                    THEN Finish(w, Resp("place_order", r.status, r.detail,
                                        [id |-> 0, name |-> r.name]))
                    ELSE /\ loc' = [loc EXCEPT ![w].i = i + 1,
                                               ![w].total = @ + r.amount,
                                               ![w].seen = Append(@, products[p].stock)]
                         /\ UNCHANGED <<pc, resp>>
    /\ UNCHANGED <<dbUp, started, users, products, orders>>

\* one turn of the second loop: update_one with $inc
order_reduce(w) ==
    /\ pc[w] = "order_reduce"
    /\ LET items == loc[w].payload.items
           i == loc[w].i
       IN  IF i > Len(items)
           THEN /\ pc' = [pc EXCEPT ![w] = "order_insert"]
                /\ UNCHANGED <<products, loc>>
           ELSE /\ products' = IncStock(products, items[i].product_id, -items[i].quantity)
                /\ loc' = [loc EXCEPT ![w].i = i + 1]
                /\ UNCHANGED pc
    /\ UNCHANGED <<dbUp, started, users, orders, resp>>

\* create_document("order", ...) and the response
order_insert(w) ==
    /\ pc[w] = "order_insert"
    /\ orders' = create_document(orders, OrderDoc(loc[w].payload, loc[w].total))
    /\ Finish(w, Resp("place_order", 200, "",
                       OrderOut(Len(orders) + 1, loc[w].payload, loc[w].total)))
    /\ UNCHANGED <<dbUp, started, users, products>>

\* requests the two workers are sent: orders for product 1 or the unassigned id 2
ConcItems == [product_id : {1, 2}, quantity : {3}]
ConcOrders ==
    [user_id : {"u1"}, items : UNION { [1 .. n -> ConcItems] : n \in 0 .. MaxItems }]

\* a seeded store with one product in the catalogue
InitConc ==
    /\ dbUp = TRUE
    /\ started = TRUE
    /\ users = SeededUsers
    /\ products \in { << p >> : p \in ProductPayloads }
    /\ orders = << >>
    /\ resp = NoResp
    /\ pc = [w \in Workers |-> "idle"]
    /\ loc = [w \in Workers |-> NoLoc]

NextConc ==
    \/ \E w \in Workers, payload \in SignupPayloads : signup_begin(w, payload)
    \/ \E w \in Workers : signup_find(w)
    \/ \E w \in Workers : signup_insert(w)
    \/ \E w \in Workers, order \in ConcOrders : order_begin(w, order)
    \/ \E w \in Workers : order_check(w)
    \/ \E w \in Workers : order_reduce(w)
    \/ \E w \in Workers : order_insert(w)

SpecConc == InitConc /\ [][NextConc]_vars

\* ====================================================================
\* Properties
\* ====================================================================

\* vocabulary of the properties
Missing(ps, item) == item.product_id \notin DOMAIN ps
Insufficient(ps, item) ==
    item.product_id \in DOMAIN ps /\ item.quantity > ps[item.product_id].stock
ItemOK(ps, item) ==
    item.product_id \in DOMAIN ps /\ ps[item.product_id].stock >= item.quantity
EarlierOK(ps, items, i) == \A j \in 1 .. (i - 1) : ItemOK(ps, items[j])

RECURSIVE SumOver(_, _)
SumOver(f, S) ==
    IF S = {} THEN 0
    ELSE LET x == CHOOSE y \in S : TRUE IN f[x] + SumOver(f, S \ {x})

\* quantity a request asks of product p, over all its items
Requested(items, p) ==
    SumOver([i \in DOMAIN items |-> items[i].quantity],
            {i \in DOMAIN items : items[i].product_id = p})

\* sum over the items of unit price x quantity
LineSum(ps, items) ==
    SumOver([i \in DOMAIN items |-> ps[items[i].product_id].price * items[i].quantity],
            DOMAIN items)

Serving == started /\ dbUp
NothingWritten(r) == r.products = products /\ r.orders = orders
Admins(us) == {i \in DOMAIN us : us[i].role = "admin"}
LoginOK(us, email, password) ==
    LET r == UserLoginResp(us, [email |-> email, password |-> password])
    IN  r.status = 200 /\ r.body.role = "user" /\ r.body.email = email

C2_ValidOrder ==
    Serving =>
        \A o \in OrderPayloads :
            (\A i \in DOMAIN o.items : ItemOK(products, o.items[i])) =>
                LET r == PlaceOrder(products, orders, o)
                    t == LineSum(products, o.items)
                IN  /\ r.resp.status = 200
                    /\ DOMAIN r.products = DOMAIN products
                    /\ \A p \in DOMAIN products :
                          r.products[p] =
                            [products[p] EXCEPT !.stock = @ - Requested(o.items, p)]
                    /\ r.orders = Append(orders, [user_id |-> o.user_id, total |-> t,
                                                  status |-> "placed"])
                    /\ r.resp.body = [id |-> Len(orders) + 1, user_id |-> o.user_id,
                                      total |-> t, status |-> "placed"]

\* the spec's example has run: price 2.50, stock 10, quantity 3 left stock 7
\* and an order of total 7.50
C2_Witness ==
    /\ Serving
    /\ resp.op = "place_order" /\ resp.status = 200
    /\ resp.body.id = 1 /\ resp.body.total = 750 /\ resp.body.status = "placed"
    /\ Len(orders) = 1 /\ orders[1].total = 750 /\ orders[1].status = "placed"
    /\ Len(products) >= 1 /\ products[1].name = "apple" /\ products[1].stock = 7

\* ------------------------------------------------------------------- C3
\* C3: when two place_order requests, each of one item for the same product,
\* have both read the same stock value s in their check and both have run to
\* the end, both succeeded, two orders exist and the stock is s minus both
\* quantities (below zero when s is less than their sum).
C3_BothDecrement ==
    \A v, w \in Workers :
        ( /\ v # w
          /\ pc[v] = "done" /\ pc[w] = "done"
          /\ loc[v].op = "place_order" /\ loc[w].op = "place_order"
          /\ Len(loc[v].payload.items) = 1 /\ Len(loc[w].payload.items) = 1
          /\ loc[v].payload.items[1].product_id = loc[w].payload.items[1].product_id
          /\ Len(loc[v].seen) = 1 /\ loc[v].seen = loc[w].seen )
        => /\ loc[v].status = 200 /\ loc[w].status = 200
           /\ Len(orders) = 2
           /\ products[loc[v].payload.items[1].product_id].stock =
                loc[v].seen[1] - loc[v].payload.items[1].quantity
                               - loc[w].payload.items[1].quantity

\* the spec's scenario has run: stock 5, two requests of quantity 3 that both
\* read 5, two orders created, stock -1
C3_Witness ==
    /\ \A w \in Workers :
          /\ pc[w] = "done" /\ loc[w].op = "place_order" /\ loc[w].status = 200
          /\ loc[w].payload.items = << [product_id |-> 1, quantity |-> 3] >>
          /\ loc[w].seen = << 5 >>
    /\ Len(orders) = 2
    /\ products[1].stock = -1

\* ------------------------------------------------------------------- C4
\* C4: once seed_admin has run with the database available, whatever the
\* user collection held before, the documents with role 'admin' are exactly
\* one, the reserved-email document, and running seed_admin again changes
\* nothing.
C4_OneAdmin ==
    Serving =>
        /\ Cardinality(Admins(users)) = 1
        /\ \A i \in Admins(users) : users[i].email = ADMIN_EMAIL
        /\ \A i \in DOMAIN users : users[i].email = ADMIN_EMAIL => i \in Admins(users)
        /\ SeedAdmin(users) = users

\* seed_admin has just run on a collection that held another admin, now demoted
C4_Witness ==
    /\ Serving
    /\ resp.op = "seed_admin"
    /\ \E i \in DOMAIN users :
          users[i].name = "Eve" /\ users[i].email # ADMIN_EMAIL /\ users[i].role = "user"
    /\ \E i \in DOMAIN users : users[i].email = ADMIN_EMAIL /\ users[i].role = "admin"

\* ------------------------------------------------------------------- C5
\* C5: admin_login never succeeds for an email other than the reserved one
\* (401 or 403), whatever role and password hash that account stores; and
\* while the service runs it succeeds only for the reserved email, a stored
\* role 'admin' and the configured admin password.
C5_AdminLoginOnlyReserved ==
    /\ \A pl \in LoginPayloads :
          pl.email # ADMIN_EMAIL => AdminLoginResp(users, pl).status \in {401, 403}
    /\ Serving =>
          \A pl \in LoginPayloads :
              AdminLoginResp(users, pl).status = 200 =>
                  /\ pl.email = ADMIN_EMAIL
                  /\ pl.password = ADMIN_PASSWORD
                  /\ users[FindUser(users, pl.email)].role = "admin"

\* an admin_login has just succeeded, for the reserved email
C5_Witness ==
    /\ Serving
    /\ resp.op = "admin_login" /\ resp.status = 200
    /\ resp.body.email = ADMIN_EMAIL /\ resp.body.role = "admin"

C7_ReservedRejected ==
    \A sp \in SignupPayloads :
        sp.email = ADMIN_EMAIL =>
            /\ SignupResp(users, sp).status = 400
            /\ SignupResp(users, sp).detail = "This email is reserved for admin"
            /\ SignupUsers(users, sp) = users

\* a user_signup has just been refused with the reserved-email error
C7_Witness ==
    /\ Serving
    /\ resp.op = "user_signup" /\ resp.status = 400
    /\ resp.detail = "This email is reserved for admin"

C9_NonNegative ==
    /\ \A p \in DOMAIN products : products[p].stock >= 0
    /\ \A k \in DOMAIN orders : orders[k].total >= 0

\* ------------------------------------------------------------------ C10
\* C10: no two documents of the user collection have the same email, also
\* when user_signup requests for one email are handled concurrently.
C10_EmailUnique ==
    \A i, j \in DOMAIN users : users[i].email = users[j].email => i = j
====
